---- MODULE Spec2Model ----
(***************************************************************************)
(* cargo-ensure-no-cyclic-deps: the dependency graph built from cargo      *)
(* metadata, the strongly connected components computed over it, the       *)
(* cycles reported and their rendering (src/src/main.rs).                  *)
(***************************************************************************)
EXTENDS Integers, Sequences, FiniteSets, TLC

VARIABLES pc, metadata, graph, cycles, out, err, exit_code

vars == <<pc, metadata, graph, cycles, out, err, exit_code>>

(***************************************************************************)
(* Bounds of the model.                                                    *)
(***************************************************************************)
\* packages in the package list of a metadata value
MaxPkgs == 3
\* dependency declarations in a workspace, counted over all its packages
MaxDeps == 4
\* dependency declarations when the package list also holds non-members
MaxForeignDeps == 2
\* members of a cycle handed to format_cycle on its own
MaxCycleLen == 3

(***************************************************************************)
(* Helpers over sequences.                                                 *)
(***************************************************************************)
Range(s) == {s[i] : i \in DOMAIN s}

SeqsUpTo(S, n) == UNION {[1..k -> S] : k \in 0..n}

\* the element of a one-element set: {e(x) : x \in {v}} computes v once
The(S) == CHOOSE x \in S : TRUE

\* Iterator::find over the package list: the index of the first package with
\* that name, 0 if none
FirstNamed(ps, name) ==
    IF \E i \in DOMAIN ps : ps[i].name = name
    THEN CHOOSE i \in DOMAIN ps : ps[i].name = name /\ \A j \in 1..(i - 1) : ps[j].name # name
    ELSE 0

\* the index of the first package with that id, 0 if none
FirstWithId(ps, id) ==
    IF \E i \in DOMAIN ps : ps[i].id = id
    THEN CHOOSE i \in DOMAIN ps : ps[i].id = id /\ \A j \in 1..(i - 1) : ps[j].id # id
    ELSE 0

(***************************************************************************)
(* cargo_metadata::Metadata as the program reads it: the package list (id, *)
(* name, declared dependency names) and the ids of the workspace members.  *)
(***************************************************************************)
NamePool == <<"a", "b", "c", "d", "e", "f">>

PkgId(i) == "p" \o ToString(i)

\* an id that no package record carries
GhostId == "ghost"

Package(i, n, deps) == [id |-> PkgId(i), name |-> n, dependencies |-> deps]

\* Metadata::workspace_packages: the packages whose id is a workspace member,
\* in package-list order
workspace_packages(m) ==
    SelectSeq(m.packages, LAMBDA p : p.id \in m.workspace_members)

(***************************************************************************)
(* detect_cycles, first loop: one graph node per workspace package and the *)
(* map from package id to node index (node indices count from 1 here).     *)
(***************************************************************************)
\* a plausible slip: every package of the list becomes a node
AllPackagesAsNodes(m) == m.packages

\* the packages that become graph nodes
NodePackages(m) == workspace_packages(m)

GraphNodes(m) == [i \in 1..Len(NodePackages(m)) |-> NodePackages(m)[i].id]

\* HashMap::insert per node: a later insert of the same key replaces the entry
NodeMap(m) ==
    LET ns == GraphNodes(m)
    IN [id \in Range(ns) |->
          CHOOSE i \in DOMAIN ns : ns[i] = id /\ \A j \in DOMAIN ns : ns[j] = id => j <= i]

(***************************************************************************)
(* detect_cycles, second loop: each declared dependency is resolved to the *)
(* first package of the whole list with that name; an edge is added when   *)
(* that package's id is a key of the node map.  0 stands for no edge.      *)
(***************************************************************************)
ResolveDep(m, node_map, dep) ==
    LET k == FirstNamed(m.packages, dep)
    IN IF k = 0 THEN 0
       ELSE IF m.packages[k].id \in DOMAIN node_map
            THEN node_map[m.packages[k].id]
            ELSE 0

\* the edges one package adds, in the order of its dependency list
PackageEdges(m, node_map, p) ==
    LET from_idx == node_map[p.id]
        tos == [i \in DOMAIN p.dependencies |-> ResolveDep(m, node_map, p.dependencies[i])]
        kept == SelectSeq(tos, LAMBDA t : t # 0)
    IN [i \in DOMAIN kept |-> <<from_idx, kept[i]>>]

RECURSIVE EdgesFrom(_, _, _, _)
EdgesFrom(m, node_map, ps, i) ==
    IF i > Len(ps) THEN <<>>
    ELSE PackageEdges(m, node_map, ps[i]) \o EdgesFrom(m, node_map, ps, i + 1)

\* the graph after both loops: node weights and edges in insertion order
BuildGraph(m) ==
    The({[nodes |-> GraphNodes(m),
          edges |-> EdgesFrom(m, node_map, workspace_packages(m), 1)]
         : node_map \in {NodeMap(m)}})

\* Graph::neighbors: the targets of a node's outgoing edges, most recent first
Neighbors(g, v) ==
    LET outs == SelectSeq(g.edges, LAMBDA e : e[1] = v)
    IN [i \in 1..Len(outs) |-> outs[Len(outs) + 1 - i][2]]

\* Graph::contains_edge
ContainsEdge(g, a, b) == \E i \in DOMAIN g.edges : g.edges[i] = <<a, b>>

(***************************************************************************)
(* petgraph::algo::tarjan_scc as detect_cycles calls it: the recursive     *)
(* visit with one root index per node (0 stands for None), the stack that  *)
(* is filled while backtracking, and the components in emission order.     *)
(***************************************************************************)
\* the first component number: it counts down from the largest index, so a
\* finished component's root index is above every index of the search
ComponentCountStart == 1000000

TarjanStart(g) ==
    [root  |-> [v \in 1..Len(g.nodes) |-> 0],
     index |-> 1,
     cc    |-> ComponentCountStart,
     stack |-> <<>>,
     sccs  |-> <<>>]

\* the component is closed at its local root v: the stack entries above the
\* last one with a smaller root index, then v itself
CloseComponent(v, st) ==
    LET below == {j \in DOMAIN st.stack : st.root[v] > st.root[st.stack[j]]}
        start == IF below = {} THEN 0
                 ELSE CHOOSE j \in below : \A k \in below : k <= j
        popped == SubSeq(st.stack, start + 1, Len(st.stack))
        scc == Append(popped, v)
    IN [root  |-> [w \in DOMAIN st.root |->
                     IF w \in Range(scc) THEN st.cc ELSE st.root[w]],
        index |-> st.index - (1 + Len(popped)),
        cc    |-> st.cc - 1,
        stack |-> SubSeq(st.stack, 1, start),
        sccs  |-> Append(st.sccs, scc)]

RECURSIVE Visit(_, _, _), VisitNeighbors(_, _, _, _, _, _)
\* the loop over v's neighbours from position i on; local says whether v is
\* still a local root
VisitNeighbors(g, v, ws, i, st, local) ==
    IF i > Len(ws) THEN [st |-> st, local |-> local]
    ELSE LET w == ws[i]
         IN The({IF s1.root[w] < s1.root[v]
                 THEN VisitNeighbors(g, v, ws, i + 1,
                                     [s1 EXCEPT !.root[v] = s1.root[w]], FALSE)
                 ELSE VisitNeighbors(g, v, ws, i + 1, s1, local)
                 : s1 \in {IF st.root[w] = 0 THEN Visit(g, w, st) ELSE st}})

Visit(g, v, st) ==
    LET s0 == [st EXCEPT !.root[v] = st.index, !.index = st.index + 1]
    IN The({IF r.local
            THEN CloseComponent(v, r.st)
            ELSE [r.st EXCEPT !.stack = Append(r.st.stack, v)]
            : r \in {VisitNeighbors(g, v, Neighbors(g, v), 1, s0, TRUE)}})

RECURSIVE TarjanRun(_, _, _)
\* TarjanScc::run: every node in index order, visited unless already seen
TarjanRun(g, n, st) ==
    IF n > Len(g.nodes) THEN st
    ELSE The({TarjanRun(g, n + 1, s1)
              : s1 \in {IF st.root[n] = 0 THEN Visit(g, n, st) ELSE st}})

tarjan_scc(g) == TarjanRun(g, 1, TarjanStart(g)).sccs

(***************************************************************************)
(* detect_cycles: the components with more than one node, as package ids,  *)
(* then one single-member cycle per workspace package with a self edge.    *)
(***************************************************************************)
\* a plausible slip: every component counts, its size is not looked at
AnySccIsCycle(scc) == Len(scc) >= 1

\* a plausible slip: the size test is off by one
LargeSccIsCycle(scc) == Len(scc) > 2

\* the filter on the components
IsCycleScc(scc) == Len(scc) > 1

SccCycles(g) ==
    LET kept == SelectSeq(tarjan_scc(g), IsCycleScc)
    IN [i \in DOMAIN kept |-> [j \in DOMAIN kept[i] |-> g.nodes[kept[i][j]]]]

\* a plausible slip: one cycle is pushed per self edge found
SelfLoopPerEdge(node_map, g, p) ==
    IF p.id \in DOMAIN node_map
    THEN LET n == node_map[p.id]
             selfs == SelectSeq(g.edges, LAMBDA e : e = <<n, n>>)
         IN [i \in DOMAIN selfs |-> <<p.id>>]
    ELSE <<>>

\* a plausible slip: a package already inside a larger component is skipped
SelfLoopOutsideScc(node_map, g, p) ==
    IF p.id \in DOMAIN node_map
    THEN LET n == node_map[p.id]
         IN IF ContainsEdge(g, n, n)
               /\ ~\E i \in DOMAIN SccCycles(g) : p.id \in Range(SccCycles(g)[i])
            THEN << <<p.id>> >> ELSE <<>>
    ELSE <<>>

\* the cycles one workspace package adds in the self-loop scan
SelfLoopOf(node_map, g, p) ==
    IF p.id \in DOMAIN node_map
    THEN LET n == node_map[p.id]
         IN IF ContainsEdge(g, n, n) THEN << <<p.id>> >> ELSE <<>>
    ELSE <<>>

RECURSIVE SelfLoopCycles(_, _, _, _)
SelfLoopCycles(node_map, g, ps, i) ==
    IF i > Len(ps) THEN <<>>
    ELSE SelfLoopOf(node_map, g, ps[i]) \o SelfLoopCycles(node_map, g, ps, i + 1)

\* the part of detect_cycles after the graph is built
CyclesOf(m, g) ==
    The({SccCycles(g) \o SelfLoopCycles(node_map, g, workspace_packages(m), 1)
         : node_map \in {NodeMap(m)}})

detect_cycles(m) == The({CyclesOf(m, g) : g \in {BuildGraph(m)}})

(***************************************************************************)
(* format_cycle: each id resolved to the name of the first package with    *)
(* that id, or to the id's own text; the names and the first name again,   *)
(* joined by " -> ".  names[0] panics on an empty cycle.                   *)
(***************************************************************************)
DisplayName(id, m) ==
    LET k == FirstWithId(m.packages, id)
    IN IF k = 0 THEN id ELSE m.packages[k].name

RECURSIVE Join(_, _)
\* [&str]::join
Join(parts, sep) ==
    IF Len(parts) = 0 THEN ""
    ELSE IF Len(parts) = 1 THEN parts[1]
    ELSE parts[1] \o sep \o Join(Tail(parts), sep)

\* a plausible slip: the path is not closed
UnclosedPath(names) == names

\* names.iter().chain(once(&names[0]))
ClosedPath(names) == Append(names, names[1])

format_cycle(cycle, m) ==
    LET names == [i \in DOMAIN cycle |-> DisplayName(cycle[i], m)]
    IN IF Len(names) = 0
       THEN [panicked |-> TRUE, text |-> ""]
       ELSE [panicked |-> FALSE, text |-> Join(ClosedPath(names), " -> ")]

(***************************************************************************)
(* The metadata values the loader may hand to main.                        *)
(***************************************************************************)
\* the names packages 1..k may carry
Names(k) == {NamePool[i] : i \in 1..k}

\* d declarations handed out to the packages in list order: the owner of each
Owners(d, ws) ==
    {f \in [1..d -> ws] : \A i \in 1..d : \A j \in 1..d : i < j => f[i] <= f[j]}

\* package i of the list: its own name when it is a workspace member, and the
\* declarations it owns, in order
MakeMetadata(k, ws, names, owner, dep) ==
    [packages |->
        [i \in 1..k |->
            LET mine == SelectSeq([j \in DOMAIN owner |-> j], LAMBDA j : owner[j] = i)
            IN Package(i, names[i], [j \in DOMAIN mine |-> dep[mine[j]]])],
     workspace_members |-> {PkgId(i) : i \in ws}]

\* the names of the workspace members are distinct: member i carries NamePool[i]
NamesFor(k, ws) ==
    {f \in [1..k -> Names(k)] : \A i \in ws : f[i] = NamePool[i]}

\* what `cargo metadata --no-deps` yields: the workspace members only
IsWorkspaceOnly(m) ==
    \E k \in 0..MaxPkgs : \E d \in 0..MaxDeps :
      \E names \in NamesFor(k, 1..k) : \E owner \in Owners(d, 1..k) :
        \E dep \in [1..d -> Names(k)] :
          m = MakeMetadata(k, 1..k, names, owner, dep)

\* a workspace of one package more, each declaring at most one dependency
\* (target[i] = 0: none)
IsSparseWorkspace(m) ==
    LET k == MaxPkgs + 1
    IN \E target \in [1..k -> 0..k] :
         m = [packages |->
                [i \in 1..k |->
                    Package(i, NamePool[i],
                            IF target[i] = 0 THEN <<>> ELSE <<NamePool[target[i]]>>)],
              workspace_members |-> {PkgId(i) : i \in 1..k}]

\* a package list that also holds packages outside the workspace, which may
\* carry any name of the pool
IsWithForeign(m) ==
    \E k \in 1..MaxPkgs : \E d \in 0..MaxForeignDeps :
      \E ws \in (SUBSET (1..k)) \ {1..k} :
        \E names \in NamesFor(k, ws) : \E owner \in Owners(d, ws) :
          \E dep \in [1..d -> Names(k)] :
            m = MakeMetadata(k, ws, names, owner, dep)

NoMetadata == [packages |-> <<>>, workspace_members |-> {}]

\* DiGraph::new()
NoGraph == [nodes |-> <<>>, edges |-> <<>>]

(***************************************************************************)
(* main, from the metadata command on.                                     *)
(***************************************************************************)
Init ==
    /\ pc = "start"
    /\ metadata = NoMetadata
    /\ graph = NoGraph
    /\ cycles = <<>>
    /\ out = <<>>
    /\ err = <<>>
    /\ exit_code = -1

\* cmd.exec() succeeds
LoadMetadata ==
    /\ pc = "start"
    /\ IsWorkspaceOnly(metadata') \/ IsSparseWorkspace(metadata')
    /\ pc' = "loaded"
    /\ UNCHANGED <<graph, cycles, out, err, exit_code>>

\* cmd.exec() succeeds with a package list that holds outside packages
LoadForeignMetadata ==
    /\ pc = "start"
    /\ IsWithForeign(metadata')
    /\ pc' = "loaded"
    /\ UNCHANGED <<graph, cycles, out, err, exit_code>>

\* cmd.exec() fails: main returns the error with its context
LoadFails ==
    /\ pc = "start"
    /\ pc' = "failed"
    /\ err' = <<"Error: Failed to load cargo metadata">>
    /\ exit_code' = 1
    /\ UNCHANGED <<metadata, graph, cycles, out>>

\* let cycles = detect_cycles(&metadata); graph keeps the graph the call built
DetectCycles ==
    /\ pc = "loaded"
    /\ graph' = BuildGraph(metadata)
    /\ cycles' = CyclesOf(metadata, graph')
    /\ pc' = "detected"
    /\ UNCHANGED <<metadata, out, err, exit_code>>

\* a plausible slip: only the components count as failures, self-loops do not
NoLargeCycle(cs) == ~\E i \in DOMAIN cs : Len(cs[i]) > 1

\* cycles.is_empty()
NoCycles(cs) == Len(cs) = 0

RECURSIVE CycleLines(_, _, _)
\* the three lines printed per cycle; a panic of format_cycle ends the loop
CycleLines(cs, m, i) ==
    IF i > Len(cs) THEN [panicked |-> FALSE, lines |-> <<>>]
    ELSE LET f == format_cycle(cs[i], m)
             rest == CycleLines(cs, m, i + 1)
         IN IF f.panicked
            THEN [panicked |-> TRUE, lines |-> <<"Cycle " \o ToString(i) \o ":">>]
            ELSE [panicked |-> rest.panicked,
                  lines |-> <<"Cycle " \o ToString(i) \o ":", "  " \o f.text, "">>
                            \o rest.lines]

ReportNone ==
    /\ pc = "detected"
    /\ NoCycles(cycles)
    /\ out' = <<"No cyclic dependencies found.">>
    /\ exit_code' = 0
    /\ pc' = "exited"
    /\ UNCHANGED <<metadata, graph, cycles, err>>

ReportCycles ==
    /\ pc = "detected"
    /\ ~NoCycles(cycles)
    /\ LET r == CycleLines(cycles, metadata, 1)
       IN /\ err' = <<"Error: Cyclic dependencies detected!\n">> \o r.lines
          /\ exit_code' = IF r.panicked THEN 101 ELSE 1
    /\ pc' = "exited"
    /\ UNCHANGED <<metadata, graph, cycles, out>>

Next ==
    \/ LoadMetadata
    \/ LoadFails
    \/ DetectCycles
    \/ ReportNone
    \/ ReportCycles

Spec == Init /\ [][Next]_vars

\* the same program over package lists that hold packages outside the workspace
ForeignNext ==
    \/ LoadForeignMetadata
    \/ LoadFails
    \/ DetectCycles
    \/ ReportNone
    \/ ReportCycles

ForeignSpec == Init /\ [][ForeignNext]_vars

(***************************************************************************)
(* format_cycle called on its own: any cycle of at most MaxCycleLen ids,   *)
(* among them an id no package record carries, over a package list whose   *)
(* packages declare nothing.                                               *)
(***************************************************************************)
FormatInit ==
    /\ pc = "format"
    /\ \E k \in 0..MaxPkgs :
         /\ metadata = MakeMetadata(k, 1..k, [i \in 1..k |-> NamePool[i]], <<>>, <<>>)
         /\ \E c \in SeqsUpTo({PkgId(i) : i \in 1..k} \cup {GhostId}, MaxCycleLen) :
              cycles = <<c>>
    /\ graph = NoGraph
    /\ out = <<>>
    /\ err = <<>>
    /\ exit_code = -1

\* format_cycle(&cycles[0], &metadata); a panic ends the process with 101
FormatCycleCall ==
    /\ pc = "format"
    /\ LET f == format_cycle(cycles[1], metadata)
       IN /\ err' = IF f.panicked THEN <<>> ELSE <<f.text>>
          /\ exit_code' = IF f.panicked THEN 101 ELSE -1
    /\ pc' = "formatted"
    /\ UNCHANGED <<metadata, graph, cycles, out>>

FormatNext == Next \/ FormatCycleCall

FormatSpec == (Init \/ FormatInit) /\ [][FormatNext]_vars

(***************************************************************************)
(* Vocabulary of the properties: the dependency relation between workspace *)
(* packages, reachability, strongly connected components as sets.          *)
(***************************************************************************)
NodeIdx == DOMAIN graph.nodes

EdgeRel == Range(graph.edges)

RECURSIVE ReachVia(_, _)
\* pairs joined by a path of at least one edge, inner nodes among 1..k
ReachVia(R, k) ==
    IF k = 0 THEN R
    ELSE The({P \cup {<<a, b>> \in NodeIdx \X NodeIdx : <<a, k>> \in P /\ <<k, b>> \in P}
              : P \in {ReachVia(R, k - 1)}})

Reach == ReachVia(EdgeRel, Len(graph.nodes))

\* the component of node v under the reachability relation R
Component(R, v) == {v} \cup {w \in NodeIdx : <<v, w>> \in R /\ <<w, v>> \in R}

\* the strongly connected components with more than one member, as id sets
LargeComponents ==
    UNION {{{graph.nodes[w] : w \in Component(R, v)}
            : v \in {u \in NodeIdx : Cardinality(Component(R, u)) > 1}}
           : R \in {Reach}}

LargeCycles(cs) == SelectSeq(cs, LAMBDA c : Len(c) > 1)

\* how many cycles of the list have exactly the member set S
TimesReported(cs, S) == Cardinality({i \in DOMAIN cs : Range(cs[i]) = S})

WorkspaceIds == {p.id : p \in Range(workspace_packages(metadata))}

PackageOf(id) == CHOOSE p \in Range(metadata.packages) : p.id = id

\* C1: the cycles of length > 1 that detect_cycles returns are exactly the
\* strongly connected components with more than one member, each returned once
\* with exactly its members
C1_LargeCyclesAreTheComponents ==
    pc = "detected" =>
        \A large \in {LargeCycles(cycles)} : \A comps \in {LargeComponents} :
           /\ {Range(large[i]) : i \in DOMAIN large} = comps
           /\ \A S \in comps : TimesReported(large, S) = 1
           /\ \A i \in DOMAIN large : Cardinality(Range(large[i])) = Len(large[i])

\* two disjoint cycles are returned as two cycles, each with its own members
C1_Witness ==
    /\ pc = "detected"
    /\ Cardinality(LargeComponents) = 2
    /\ Len(LargeCycles(cycles)) = 2
    /\ \A S \in LargeComponents : \A T \in LargeComponents : S # T => S \cap T = {}
    /\ Range(cycles[1]) \in LargeComponents
    /\ Range(cycles[2]) \in LargeComponents
    /\ Range(cycles[1]) # Range(cycles[2])

\* C2: a workspace package with an edge to itself yields the length-1 cycle of
\* that package, whatever else the graph holds
C2_SelfLoopReported ==
    pc = "detected" =>
        \A n \in NodeIdx :
            <<n, n>> \in EdgeRel => \E i \in DOMAIN cycles : cycles[i] = <<graph.nodes[n]>>

\* a package with a self edge inside a larger component is reported in both
C2_Witness ==
    /\ pc = "detected"
    /\ \E n \in NodeIdx :
         /\ <<n, n>> \in EdgeRel
         /\ \E i \in DOMAIN cycles : Len(cycles[i]) > 1 /\ graph.nodes[n] \in Range(cycles[i])
         /\ \E i \in DOMAIN cycles : cycles[i] = <<graph.nodes[n]>>

\* C3: every edge has both endpoints among the workspace members, its target
\* carries a name its source declares, a package adds no more edges than it
\* declares names of members, and every id of every cycle is a workspace member
C3_NoEdgeOutsideWorkspace ==
    pc = "detected" =>
        /\ \A e \in EdgeRel :
             /\ e[1] \in NodeIdx /\ e[2] \in NodeIdx
             /\ graph.nodes[e[1]] \in metadata.workspace_members
             /\ graph.nodes[e[2]] \in metadata.workspace_members
             /\ PackageOf(graph.nodes[e[2]]).name
                   \in Range(PackageOf(graph.nodes[e[1]]).dependencies)
        /\ \A n \in NodeIdx :
             LET deps == PackageOf(graph.nodes[n]).dependencies
                 memberNames == {PackageOf(id).name : id \in WorkspaceIds}
             IN Len(SelectSeq(graph.edges, LAMBDA e : e[1] = n))
                   <= Len(SelectSeq(deps, LAMBDA d : d \in memberNames))
        /\ \A i \in DOMAIN cycles : Range(cycles[i]) \subseteq metadata.workspace_members

\* a member of a reported cycle also declares the name of an outside package
\* that no member carries
C3_Witness ==
    /\ pc = "detected"
    /\ \E i \in DOMAIN cycles : \E id \in Range(cycles[i]) :
         \E q \in Range(metadata.packages) :
            /\ q.id \notin metadata.workspace_members
            /\ q.name \in Range(PackageOf(id).dependencies)
            /\ \A w \in WorkspaceIds : PackageOf(w).name # q.name

\* C4: after a successful load the program ends with exit code 0 exactly when
\* the list detect_cycles returned is empty and with 1 otherwise; the success
\* message is printed only for the empty list, and one rendered path per cycle
\* goes to the error stream otherwise
C4_ExitCodeIffNoCycles ==
    pc = "exited" =>
        /\ exit_code = 0 <=> cycles = <<>>
        /\ exit_code # 0 => exit_code = 1
        /\ out = (IF cycles = <<>> THEN <<"No cyclic dependencies found.">> ELSE <<>>)
        /\ cycles = <<>> => err = <<>>
        /\ cycles # <<>> =>
             /\ Len(err) = 1 + 3 * Len(cycles)
             /\ \A i \in DOMAIN cycles :
                  err[3 * i] = "  " \o format_cycle(cycles[i], metadata).text

\* the program has reported two cycles and ended with 1
C4_Witness ==
    /\ pc = "exited"
    /\ exit_code = 1
    /\ Len(cycles) = 2
    /\ Len(err) = 7
    /\ out = <<>>

\* the reorderings of the workspace packages of a package list: a package
\* outside the workspace keeps its place
Orderings(m) ==
    {f \in [DOMAIN m.packages -> DOMAIN m.packages] :
        /\ \A i \in DOMAIN f : \A j \in DOMAIN f : f[i] = f[j] => i = j
        /\ \A i \in DOMAIN f : m.packages[i].id \notin m.workspace_members => f[i] = i}

\* the package list reordered by f; with rev, every dependency list reversed
Reordered(m, f, rev) ==
    [m EXCEPT !.packages =
        [i \in DOMAIN m.packages |->
            LET q == m.packages[f[i]]
                n == Len(q.dependencies)
            IN [q EXCEPT !.dependencies =
                  IF rev THEN [j \in 1..n |-> q.dependencies[n + 1 - j]] ELSE @]]]

MemberSets(cs) == {Range(cs[i]) : i \in DOMAIN cs}

C6_CycleIsClosedWalk ==
    pc = "detected" =>
        \A i \in DOMAIN cycles :
            Len(cycles[i]) > 1 =>
                \A j \in DOMAIN cycles[i] :
                    <<NodeMap(metadata)[cycles[i][j]],
                      NodeMap(metadata)[cycles[i][(j % Len(cycles[i])) + 1]]>> \in EdgeRel

\* the name a member of a cycle is shown by
ShownAs(id) ==
    IF \E p \in Range(metadata.packages) : p.id = id THEN PackageOf(id).name ELSE id

RECURSIVE ArrowPath(_, _)
\* the first n names of a cycle, each followed by an arrow
ArrowPath(c, n) ==
    IF n = 0 THEN "" ELSE ArrowPath(c, n - 1) \o ShownAs(c[n]) \o " -> "

\* C7: no returned cycle is empty; format_cycle on a non-empty cycle does not
\* fail and yields the members' names in order and the first name again, joined
\* by " -> ", an id without a package record shown as the id itself
C7_RenderedClosedPath ==
    /\ pc = "detected" => \A i \in DOMAIN cycles : Len(cycles[i]) >= 1
    /\ pc = "exited" /\ cycles # <<>> =>
         /\ exit_code # 101
         /\ \A i \in DOMAIN cycles :
              err[3 * i] = "  " \o ArrowPath(cycles[i], Len(cycles[i])) \o ShownAs(cycles[i][1])
    /\ pc = "formatted" /\ Len(cycles[1]) >= 1 =>
         /\ exit_code # 101
         /\ err = <<ArrowPath(cycles[1], Len(cycles[1])) \o ShownAs(cycles[1][1])>>

\* a cycle of a known package and an id without a record has been rendered
C7_Witness ==
    /\ pc = "formatted"
    /\ cycles = << <<PkgId(1), GhostId>> >>
    /\ err = <<"a -> ghost -> a">>

\* C8: a graph with no directed cycle and no self-loop, one with no edge among
\* them, yields the empty list
C8_NoCycleNoReport ==
    pc = "detected" =>
        \A R \in {Reach} : (\A n \in NodeIdx : <<n, n>> \notin R) => cycles = <<>>

\* three edges without a cycle, and nothing is reported
C8_Witness ==
    /\ pc = "detected"
    /\ Cardinality(EdgeRel) >= 3
    /\ \A R \in {Reach} : \A n \in NodeIdx : <<n, n>> \notin R
    /\ cycles = <<>>

Redeclared(m) ==
    {x \in {<<i, j>> : i \in DOMAIN m.packages, j \in 1..MaxDeps + 1} :
        /\ x[2] \in DOMAIN m.packages[x[1]].dependencies
        /\ \E k \in DOMAIN m.packages[x[1]].dependencies :
             k # x[2] /\ m.packages[x[1]].dependencies[k] = m.packages[x[1]].dependencies[x[2]]}

\* the metadata without declaration j of package i
WithoutDeclaration(m, i, j) ==
    [m EXCEPT !.packages[i].dependencies =
        [k \in 1..(Len(@) - 1) |-> IF k < j THEN @[k] ELSE @[k + 1]]]

\* the declarations (package, name) a package could repeat
Declared(m) ==
    {x \in (DOMAIN m.packages) \X Range(NamePool) : x[2] \in Range(m.packages[x[1]].dependencies)}

\* the metadata with name n declared once more by package i, after the others
DeclaredAgain(m, i, n) == [m EXCEPT !.packages[i].dependencies = Append(@, n)]

\* C10 as stated: a dependency declared again leaves the returned list unchanged
C10_SameListWithDuplicates ==
    pc = "detected" =>
        /\ \A x \in Declared(metadata) :
             \A m \in {DeclaredAgain(metadata, x[1], x[2])} : detect_cycles(m) = cycles
        /\ \A x \in Redeclared(metadata) :
             \A m \in {WithoutDeclaration(metadata, x[1], x[2])} : detect_cycles(m) = cycles

\* how often each member set is reported
Reports(cs) == [S \in MemberSets(cs) |-> TimesReported(cs, S)]

\* C10, amended: a dependency declared again, at whatever position of the
\* list, leaves the returned cycles unchanged as a collection of member sets,
\* each reported as often as before: the metadata with a repeated declaration
\* yields the same collection as the metadata without that declaration
C10_SameCyclesWithDuplicates ==
    pc = "detected" =>
        \A now \in {Reports(cycles)} :
           \A x \in Redeclared(metadata) :
              \A m \in {WithoutDeclaration(metadata, x[1], x[2])} :
                  Reports(detect_cycles(m)) = now

\* a package declares itself twice and its length-1 cycle is reported once
C10_Witness ==
    /\ pc = "detected"
    /\ \E x \in Redeclared(metadata) :
         LET p == metadata.packages[x[1]]
         IN /\ p.dependencies[x[2]] = p.name
            /\ TimesReported(cycles, {p.id}) = 1
            /\ \E i \in DOMAIN cycles : Len(cycles[i]) > 1 /\ p.id \in Range(cycles[i])

====
